---- MODULE Spec2Model ----
(***************************************************************************)
(* Model of the Perfmatters configuration generator (src/app.py,           *)
(* src/ad_detector.py): the rule store held by PerfmattersConfigGenerator, *)
(* the identifier normalizers, generate_config and the /generate-config    *)
(* and /reload-config routes.                                              *)
(*                                                                         *)
(* Strings the code inspects character by character (plugin and theme      *)
(* identifiers, dictionary keys) are tuples of one-character strings.      *)
(* Exclusion tokens are only copied and compared, so they are atoms.       *)
(***************************************************************************)
EXTENDS Integers, Sequences, FiniteSets, TLC

VARIABLES
    template_string,  \* PerfmattersConfigGenerator.template_string
    rucss_dict,       \* PerfmattersConfigGenerator.rucss_dict
    delayjs_dict,     \* PerfmattersConfigGenerator.delayjs_dict
    js_dict,          \* PerfmattersConfigGenerator.js_dict
    request,          \* the HTTP request being answered, NoRequest when idle
    response,         \* the response built for it
    call,             \* what the handler passed to / got from generate_config
    norm_fn,          \* which normalizer is being exercised ("none" before)
    norm_in,          \* the raw identifier handed to the normalizer
    norm_x,           \* the current value (result of the last application)
    norm_prev,        \* the value before the last application
    norm_steps,       \* how many times the normalizer has been applied
    heap,             \* the configuration objects generate_config has created
    returned,         \* the calls of generate_config that returned, in order
    disk,             \* the four configuration files as they are on disk
    reloads,          \* the threads running load_configurations
    reader,           \* a thread running generate_config
    workers,          \* the config_generator of each gunicorn worker process
    published,        \* the store of the last /reload-config answered 200
    served,           \* the last /generate-config answered by a worker
    session,          \* the Flask session of one browser (its cookie)
    web,              \* the last answer of a dashboard route to that browser
    generated_configs \* the files saved in the generated_configs directory

store_vars == <<template_string, rucss_dict, delayjs_dict, js_dict>>
http_vars == <<request, response, call>>
norm_vars == <<norm_fn, norm_in, norm_x, norm_prev, norm_steps>>
calls_vars == <<heap, returned>>
thread_vars == <<disk, reloads, reader>>
worker_vars == <<workers, published, served>>
auth_vars == <<session, web, generated_configs>>
vars == <<template_string, rucss_dict, delayjs_dict, js_dict,
          request, response, call,
          norm_fn, norm_in, norm_x, norm_prev, norm_steps,
          heap, returned,
          disk, reloads, reader,
          workers, published, served,
          session, web, generated_configs>>

----------------------------------------------------------------------------
(* Bounds *)

MaxStrLen == 3     \* longest raw identifier fed to the normalizers
MaxApply == 2      \* applications of a normalizer in a row
MaxPlugins == 2    \* longest `plugins` array of a request
MaxThemes == 2     \* longest `themes` array of a request
MaxCalls == 2      \* calls of generate_config followed on one generator
MaxReloads == 2    \* threads that run load_configurations side by side
MaxSessionIds == 2 \* values secrets.token_hex(16) may draw
MaxSalts == 2      \* values bcrypt.gensalt() may draw
MaxSaved == 2      \* files in the generated_configs directory

----------------------------------------------------------------------------
(* Generic helpers *)

Min(S) == CHOOSE x \in S : \A y \in S : x <= y
Max(S) == CHOOSE x \in S : \A y \in S : x >= y

SeqsUpTo(S, n) == UNION {[1..k -> S] : k \in 0..n}

Range(s) == {s[i] : i \in 1..Len(s)}

----------------------------------------------------------------------------
(* Python string and regular-expression primitives used by the normalizers *)

UpperLetters ==
    <<"A","B","C","D","E","F","G","H","I","J","K","L","M",
      "N","O","P","Q","R","S","T","U","V","W","X","Y","Z">>
LowerLetters ==
    <<"a","b","c","d","e","f","g","h","i","j","k","l","m",
      "n","o","p","q","r","s","t","u","v","w","x","y","z">>

\* str.lower() on one character
lower_char(c) ==
    IF \E i \in 1..26 : UpperLetters[i] = c
    THEN LowerLetters[CHOOSE i \in 1..26 : UpperLetters[i] = c]
    ELSE c

\* str.lower()
str_lower(s) == [i \in 1..Len(s) |-> lower_char(s[i])]

\* str.replace(old, new) for one-character old and new
str_replace(s, old, new) == [i \in 1..Len(s) |-> IF s[i] = old THEN new ELSE s[i]]

\* regex classes \s and \d, and `.` (anything but a line feed)
IsSpace(c) == c \in {" ", "\t", "\n", "\r", "\f"}
IsDigit(c) == c \in {"0","1","2","3","4","5","6","7","8","9"}
IsDot(c) == c # "\n"

\* `$` without re.MULTILINE: after e characters of s the position is the end
\* of the string or just before a line feed that ends the string
AtEnd(s, e) == e = Len(s) \/ (e = Len(s) - 1 /\ s[Len(s)] = "\n")

\* the characters b+1..e of s are all matched by `.`
DotRun(s, b, e) == \A i \in (b + 1)..e : IsDot(s[i])

\* The positions at which a match of the pattern that starts at character p
\* may end.  "slash" is r'/.*$', "version" is r'\s+\d+.*$'.
MatchEnds(pat, s, p) ==
    IF pat = "slash"
    THEN IF s[p] = "/"
         THEN {e \in p..Len(s) : DotRun(s, p, e) /\ AtEnd(s, e)}
         ELSE {}
    ELSE {e \in (p + 1)..Len(s) :
            \E q \in (p + 1)..e :
                /\ \A i \in p..(q - 1) : IsSpace(s[i])
                /\ IsDigit(s[q])
                /\ DotRun(s, q, e)
                /\ AtEnd(s, e)}

\* re.sub(pat, '', s) from character pos on: the leftmost match is removed
\* (the quantifiers are greedy, so it is the longest one at that start) and
\* the scan resumes after it
RECURSIVE re_sub(_, _, _)
re_sub(pat, s, pos) ==
    LET starts == {p \in pos..Len(s) : MatchEnds(pat, s, p) # {}}
    IN  IF starts = {}
        THEN SubSeq(s, pos, Len(s))
        ELSE LET p == Min(starts)
                 e == Max(MatchEnds(pat, s, p))
             IN  SubSeq(s, pos, p - 1) \o re_sub(pat, s, e + 1)

\* PerfmattersConfigGenerator._normalize_plugin_name
normalize_plugin_name(plugin) ==
    LET p1 == re_sub("slash", plugin, 1)
        p2 == re_sub("version", p1, 1)
    IN  str_replace(str_replace(str_lower(p2), " ", "-"), "_", "-")

\* PerfmattersConfigGenerator._normalize_theme_name
normalize_theme_name(theme) ==
    str_replace(str_replace(str_lower(theme), " ", "-"), "_", "-")

----------------------------------------------------------------------------
(* Identifiers used in the explored requests and rule dictionaries *)

k_woo == <<"w","o","o">>                       \* dictionary key "woo"
k_elem == <<"e","l","e","m">>                  \* dictionary key "elem"
k_astra == <<"a","s","t","r","a">>             \* dictionary key "astra"
k_kadence == <<"k","a","d","e","n","c","e">>   \* dictionary key "kadence"
k_default == <<"d","e","f","a","u","l","t">>   \* the route's default theme

r_Woo == <<"W","o","o">>                       \* raw "Woo"
r_zz == <<"z","z">>                            \* raw "zz", in no dictionary
r_Astra == <<"A","s","t","r","a">>             \* raw "Astra"
r_KadenceChild ==                              \* raw "Kadence Child v1.2"
    <<"K","a","d","e","n","c","e"," ","C","h","i","l","d"," ","v","1",".","2">>

RawPlugins == {r_Woo, k_elem, r_zz}
RawThemes == {r_Astra, k_astra, r_KadenceChild}
LegacyThemes == {k_astra, r_KadenceChild}

----------------------------------------------------------------------------
(* Python dictionaries and lists *)

\* The six exclusion categories of perfmatters_options.assets
Categories ==
    {"js_exclusions", "delay_js_exclusions", "rucss_excluded_stylesheets",
     "rucss_excluded_selectors", "minify_css_exclusions", "minify_js_exclusions"}

\* {} : the dictionary with no key.  None is modelled by the same value
\* wherever the code only tests the truth of the value (`if x:`).
EmptyDict == <<>>
Truthy(x) == DOMAIN x # {}

\* d.get(key, {}) and d.get(key, [])
dict_get(d, key) == IF key \in DOMAIN d THEN d[key] ELSE <<>>

\* Mutant of dict_fromkeys: a key inserted again moves to the end
RECURSIVE dict_fromkeys_keep_last(_)
dict_fromkeys_keep_last(l) ==
    IF l = <<>> THEN <<>>
    ELSE LET rest == dict_fromkeys_keep_last(Tail(l))
         IN  IF Head(l) \in Range(rest) THEN rest ELSE <<Head(l)>> \o rest

\* list(dict.fromkeys(l)): a key inserted again keeps its first position
RECURSIVE dict_fromkeys(_)
dict_fromkeys(l) ==
    IF l = <<>> THEN <<>>
    ELSE LET init == dict_fromkeys(SubSeq(l, 1, Len(l) - 1))
             x == l[Len(l)]
         IN  IF x \in Range(init) THEN init ELSE Append(init, x)

\* sep.join(l): the written string, as the sequence of its pieces
RECURSIVE str_join(_, _)
str_join(sep, l) ==
    IF l = <<>> THEN <<>>
    ELSE IF Len(l) = 1 THEN <<l[1]>>
    ELSE <<l[1], sep>> \o str_join(sep, Tail(l))

----------------------------------------------------------------------------
(* Contents the configuration files may have *)

\* templates/default_template.json, parsed
TemplateDoc ==
    [perfmatters_options |->
        [assets |->
            [js_exclusions |-> <<"tpl.js">>,
             delay_js_exclusions |-> <<>>,
             rucss_excluded_stylesheets |-> <<>>,
             rucss_excluded_selectors |-> <<>>,
             minify_css_exclusions |-> <<>>,
             minify_js_exclusions |-> <<>>,
             delay_js |-> "1"],
         remove_comment_urls |-> "1",
         disable_emojis |-> "1"],
     version |-> "2.1"]

\* The text of a template file: JSON for TemplateDoc, or text that is not JSON
TemplateGood == [is_json |-> TRUE, doc |-> TemplateDoc]
TemplateBad == [is_json |-> FALSE, doc |-> <<>>]

\* json.loads
json_loads(text) ==
    IF text.is_json THEN [raised |-> FALSE, value |-> text.doc]
    ELSE [raised |-> TRUE, value |-> <<>>]

\* config/dictionary_rucss.json
RucssA ==
    [universal |-> [rucss_excluded_stylesheets |-> <<"u.css", "dup.css">>],
     plugins |->
        (k_woo :> [rucss_excluded_stylesheets |-> <<"woo.css", "dup.css">>,
                   rucss_excluded_selectors |-> <<".woo">>]),
     themes |->
        (k_astra :> [rucss_excluded_stylesheets |-> <<"astra.css", "woo.css">>]),
     compound_rules |->
        [woo_elem_astra |->
            [required_plugins |-> <<k_woo, k_elem>>,
             required_theme |-> k_astra,
             rucss_excluded_stylesheets |-> <<"compound.css">>]]]

RucssB ==
    [universal |-> [rucss_excluded_selectors |-> <<".site">>],
     plugins |->
        (k_woo :> [rucss_excluded_stylesheets |-> <<"woo.css">>]),
     themes |->
        (k_astra :> [rucss_excluded_stylesheets |-> <<"astra.css">>])
        @@ (k_kadence :> [rucss_excluded_stylesheets |-> <<"kadence.css", "astra.css">>])]

\* config/dictionary_delayjs.json
DelayjsA ==
    [universal |-> [delay_js_exclusions |-> <<"jquery.min.js">>],
     plugins |->
        (k_elem :> [delay_js_exclusions |-> <<"elem.js", "jquery.min.js">>]),
     themes |->
        (k_astra :> [delay_js_exclusions |-> <<"astra.js", "elem.js">>])]

DelayjsB ==
    [universal |-> [delay_js_exclusions |-> <<"mediavine">>],
     plugins |->
        (k_woo :> [delay_js_exclusions |-> <<"woo.js", "adthrive">>]),
     themes |-> EmptyDict]

\* config/dictionary_js.json
JsA ==
    [universal |-> [js_exclusions |-> <<"jquery.min.js">>],
     plugins |->
        (k_woo :> [js_exclusions |-> <<"woo.js", "jquery.min.js">>])
        @@ (k_elem :> [js_exclusions |-> <<"woo.js", "elem.js">>]),
     themes |->
        (k_astra :> [js_exclusions |-> <<"astra.js">>])]

JsB == EmptyDict

RucssDicts == {RucssA, RucssB}
DelayjsDicts == {DelayjsA, DelayjsB}
JsDicts == {JsA, JsB}

----------------------------------------------------------------------------
(* src/ad_detector.py *)

\* A text (the page's HTML, a script's src) is modelled, lowercased, by the
\* set of markers that occur in it as substrings: `m in text` is m \in text.
\* "re:adthrive-host" stands for a match of ADTHRIVE_HOST_RE.

\* AdProviderDetector.ad_providers, in dictionary order.  The first two of
\* the eight providers; the other six have the same shape.
ad_providers ==
    <<[name |-> "Mediavine",
       domains |-> <<"scripts.mediavine.com", "ads.mediavine.com">>,
       patterns |-> <<"window.mediavinedomain", "__mediavinemachine", "mediavine">>,
       js_exclusions |-> <<"mediavine", "mediavine.min.js">>,
       rucss_exclusions |-> <<".mediavine", ".mediavine-ad", "mediavine.min.css">>,
       delay_js_exclusions |-> <<"mediavine", "mediavine.min.js">>,
       rucss_excluded_selectors |-> <<".mediavine", ".mediavine-ad">>,
       minify_css_exclusions |-> <<"mediavine.min.css">>,
       minify_js_exclusions |-> <<"mediavine", "mediavine.min.js">>],
      [name |-> "AdThrive/Raptive",
       domains |-> <<"adthrive.com", "raptive.com", "raptive.s3", "raptivecdn.com">>,
       patterns |-> <<"window.adthrive", "adthrive.config", "window.at", "at.siteid",
                      "/sites/", "ads.min.js", "adthrive.com", "raptive">>,
       js_exclusions |-> <<"adthrive", "adthrive.min.js", "ads.min.js">>,
       rucss_exclusions |-> <<".adthrive", ".adthrive-ad", "ads.min.css", "adthrive.min.css">>,
       delay_js_exclusions |-> <<"adthrive", "adthrive.min.js", "ads.min.js", "googletag">>,
       rucss_excluded_selectors |-> <<".adthrive", ".adthrive-ad">>,
       minify_css_exclusions |-> <<"ads.min.css", "adthrive.min.css">>,
       minify_js_exclusions |-> <<"adthrive", "adthrive.min.js", "ads.min.js", "googletag">>]>>

\* The keys of the dictionary get_ad_exclusions returns
AdKeys ==
    {"rucss_exclusions", "delay_js_exclusions", "rucss_excluded_selectors",
     "minify_css_exclusions", "js_exclusions", "minify_js_exclusions"}

\* What requests.get(url) may bring back
PageFail == [fetched |-> FALSE, html |-> {}, script_sources |-> <<>>]
PagePlain == [fetched |-> TRUE, html |-> {}, script_sources |-> <<{}>>]
PageMediavine ==
    [fetched |-> TRUE,
     html |-> {"window.mediavinedomain", "mediavine"},
     script_sources |-> <<>>]
PageAdthrive ==
    [fetched |-> TRUE,
     html |-> {"adthrive.com", "/sites/", "ads.min.js", "window.adthrive"},
     script_sources |-> <<{}, {"adthrive.com", "re:adthrive-host", "/sites/", "ads.min.js"}>>]
PageBoth ==
    [fetched |-> TRUE,
     html |-> {"scripts.mediavine.com", "mediavine", "raptive"},
     script_sources |-> <<{"scripts.mediavine.com", "mediavine"}>>]
Pages == {PageFail, PagePlain, PageMediavine, PageAdthrive, PageBoth}

\* AdProviderDetector._check_provider
check_provider(html_content, script_sources, provider_config) ==
    \/ \E i \in 1..Len(script_sources) :
          \/ \E d \in 1..Len(provider_config.domains) :
                provider_config.domains[d] \in script_sources[i]
          \/ "re:adthrive-host" \in script_sources[i]
          \/ "ads.min.js" \in script_sources[i]
          \/ "/sites/" \in script_sources[i]
    \/ \E k \in 1..Len(provider_config.patterns) :
          provider_config.patterns[k] \in html_content

\* AdProviderDetector.get_ad_exclusions: a failed fetch returns the empty
\* exclusions; otherwise the lists of the detected providers, in table order
RECURSIVE ad_exclusions_from(_, _, _)
ad_exclusions_from(page, i, exclusions) ==
    IF i > Len(ad_providers) THEN exclusions
    ELSE LET provider_config == ad_providers[i]
             detected == check_provider(page.html, page.script_sources, provider_config)
         IN  ad_exclusions_from(page, i + 1,
                IF detected
                THEN [k \in AdKeys |-> exclusions[k] \o provider_config[k]]
                ELSE exclusions)

\* Mutant of get_ad_exclusions: a failed fetch is taken for a page of the
\* first provider of the table
get_ad_exclusions_guessing(page) ==
    LET exclusions == [k \in AdKeys |-> <<>>]
    IN  IF page.fetched THEN ad_exclusions_from(page, 1, exclusions)
        ELSE [k \in AdKeys |-> ad_providers[1][k]]

\* AdProviderDetector.get_ad_exclusions, after its two `except` clauses
get_ad_exclusions(page) ==
    LET exclusions == [k \in AdKeys |-> <<>>]
    IN  IF page.fetched THEN ad_exclusions_from(page, 1, exclusions) ELSE exclusions

----------------------------------------------------------------------------
(* PerfmattersConfigGenerator (src/app.py) *)

\* `sub in s` for strings
str_contains(s, sub) ==
    \E i \in 0..(Len(s) - Len(sub)) : SubSeq(s, i + 1, i + Len(sub)) = sub

\* _get_plugin_rucss_optimizations (None is the empty dictionary, see Truthy)
get_plugin_rucss_optimizations(self, plugin) ==
    LET plugins_config == dict_get(self.rucss_dict, "plugins")
        plugin_key == normalize_plugin_name(plugin)
    IN  IF plugin_key \in DOMAIN plugins_config THEN plugins_config[plugin_key] ELSE <<>>

\* _get_plugin_delayjs_optimizations
get_plugin_delayjs_optimizations(self, plugin) ==
    LET plugins_config == dict_get(self.delayjs_dict, "plugins")
        plugin_key == normalize_plugin_name(plugin)
    IN  IF plugin_key \in DOMAIN plugins_config THEN plugins_config[plugin_key] ELSE <<>>

\* _get_plugin_js_optimizations
get_plugin_js_optimizations(self, plugin) ==
    LET plugins_config == dict_get(self.js_dict, "plugins")
        plugin_key == normalize_plugin_name(plugin)
    IN  IF plugin_key \in DOMAIN plugins_config THEN plugins_config[plugin_key] ELSE <<>>

\* _get_theme_rucss_optimizations
get_theme_rucss_optimizations(self, theme) ==
    LET themes_config == dict_get(self.rucss_dict, "themes")
        theme_key == normalize_theme_name(theme)
    IN  IF theme_key \in DOMAIN themes_config THEN themes_config[theme_key] ELSE <<>>

\* _get_theme_delayjs_optimizations
get_theme_delayjs_optimizations(self, theme) ==
    LET themes_config == dict_get(self.delayjs_dict, "themes")
        theme_key == normalize_theme_name(theme)
    IN  IF theme_key \in DOMAIN themes_config THEN themes_config[theme_key] ELSE <<>>

\* _get_theme_js_optimizations
get_theme_js_optimizations(self, theme) ==
    LET themes_config == dict_get(self.js_dict, "themes")
        theme_key == normalize_theme_name(theme)
    IN  IF theme_key \in DOMAIN themes_config THEN themes_config[theme_key] ELSE <<>>

\* Mutant of _is_kadence_theme: the name is not lowercased
is_kadence_theme_case_sensitive(themes) ==
    \E i \in 1..Len(themes) : str_contains(themes[i], k_kadence)

\* _is_kadence_theme
is_kadence_theme(themes) ==
    \E i \in 1..Len(themes) : str_contains(str_lower(themes[i]), k_kadence)

\* Mutant of collect_universal: the JS dictionary's universal exclusions are
\* left out
collect_universal_without_js(self) ==
    LET rucss_universal == dict_get(self.rucss_dict, "universal")
        delayjs_universal == dict_get(self.delayjs_dict, "universal")
    IN  [plugins_processed |-> 0,
         themes_processed |-> 0,
         js_exclusions |-> <<>>,
         delay_js_exclusions |-> dict_get(delayjs_universal, "delay_js_exclusions"),
         rucss_excluded_stylesheets |-> dict_get(rucss_universal, "rucss_excluded_stylesheets"),
         rucss_excluded_selectors |-> <<>>,
         minify_css_exclusions |-> <<>>,
         minify_js_exclusions |-> <<>>]

\* generate_config, lines 92-115: the counters, the six empty lists and the
\* universal exclusions of the three dictionaries
collect_universal(self) ==
    LET rucss_universal == dict_get(self.rucss_dict, "universal")
        delayjs_universal == dict_get(self.delayjs_dict, "universal")
        js_universal == dict_get(self.js_dict, "universal")
    IN  [plugins_processed |-> 0,
         themes_processed |-> 0,
         js_exclusions |-> dict_get(js_universal, "js_exclusions"),
         delay_js_exclusions |-> dict_get(delayjs_universal, "delay_js_exclusions"),
         rucss_excluded_stylesheets |-> dict_get(rucss_universal, "rucss_excluded_stylesheets"),
         rucss_excluded_selectors |-> <<>>,
         minify_css_exclusions |-> <<>>,
         minify_js_exclusions |-> <<>>]

\* Mutant of detector_called: the domain is not looked at
detector_called_without_domain(domain, analyze_domain) == analyze_domain

\* generate_config, line 119: `if analyze_domain and domain`, the guard of
\* the only call of ad_detector.get_ad_exclusions
detector_called(domain, analyze_domain) == analyze_domain /\ Truthy(domain)

\* Mutant of collect_ad_exclusions: the providers' exclusions are put in
\* front of what was collected before
collect_ad_exclusions_in_front(acc, domain, analyze_domain, page) ==
    IF detector_called(domain, analyze_domain)
    THEN LET ad_exclusions == get_ad_exclusions(page)
         IN  [acc EXCEPT
                !.js_exclusions = ad_exclusions["js_exclusions"] \o @,
                !.rucss_excluded_stylesheets = ad_exclusions["rucss_exclusions"] \o @,
                !.delay_js_exclusions = ad_exclusions["delay_js_exclusions"] \o @,
                !.rucss_excluded_selectors = ad_exclusions["rucss_excluded_selectors"] \o @,
                !.minify_css_exclusions = ad_exclusions["minify_css_exclusions"] \o @,
                !.minify_js_exclusions = ad_exclusions["minify_js_exclusions"] \o @]
    ELSE acc

\* generate_config, lines 117-129: the detected providers' exclusions
collect_ad_exclusions(acc, domain, analyze_domain, page) ==
    IF detector_called(domain, analyze_domain)
    THEN LET ad_exclusions == get_ad_exclusions(page)
         IN  IF \E k \in AdKeys : ad_exclusions[k] # <<>>
             THEN [acc EXCEPT
                    !.js_exclusions = @ \o ad_exclusions["js_exclusions"],
                    !.rucss_excluded_stylesheets = @ \o ad_exclusions["rucss_exclusions"],
                    !.delay_js_exclusions = @ \o ad_exclusions["delay_js_exclusions"],
                    !.rucss_excluded_selectors = @ \o ad_exclusions["rucss_excluded_selectors"],
                    !.minify_css_exclusions = @ \o ad_exclusions["minify_css_exclusions"],
                    !.minify_js_exclusions = @ \o ad_exclusions["minify_js_exclusions"]]
             ELSE acc
    ELSE acc

\* Mutant of process_plugin: every entry is counted, found or not
process_plugin_counts_all(self, acc, plugin) ==
    LET rucss_plugin_settings == get_plugin_rucss_optimizations(self, plugin)
        delayjs_plugin_settings == get_plugin_delayjs_optimizations(self, plugin)
        js_plugin_settings == get_plugin_js_optimizations(self, plugin)
    IN  [acc EXCEPT
            !.rucss_excluded_stylesheets =
                @ \o dict_get(rucss_plugin_settings, "rucss_excluded_stylesheets"),
            !.plugins_processed = @ + 1,
            !.delay_js_exclusions =
                @ \o dict_get(delayjs_plugin_settings, "delay_js_exclusions"),
            !.js_exclusions =
                @ \o dict_get(js_plugin_settings, "js_exclusions")]

\* generate_config, lines 133-147: the body of `for plugin in plugins`
process_plugin(self, acc, plugin) ==
    LET rucss_plugin_settings == get_plugin_rucss_optimizations(self, plugin)
        delayjs_plugin_settings == get_plugin_delayjs_optimizations(self, plugin)
        js_plugin_settings == get_plugin_js_optimizations(self, plugin)
    IN  [acc EXCEPT
            !.rucss_excluded_stylesheets =
                IF Truthy(rucss_plugin_settings)
                THEN @ \o dict_get(rucss_plugin_settings, "rucss_excluded_stylesheets")
                ELSE @,
            !.plugins_processed =
                IF Truthy(rucss_plugin_settings) THEN @ + 1 ELSE @,
            !.delay_js_exclusions =
                IF Truthy(delayjs_plugin_settings)
                THEN @ \o dict_get(delayjs_plugin_settings, "delay_js_exclusions")
                ELSE @,
            !.js_exclusions =
                IF Truthy(js_plugin_settings)
                THEN @ \o dict_get(js_plugin_settings, "js_exclusions")
                ELSE @]

\* generate_config, lines 131-147: `for plugin in plugins`
RECURSIVE process_plugins(_, _, _)
process_plugins(self, acc, plugins) ==
    IF plugins = <<>> THEN acc
    ELSE process_plugins(self, process_plugin(self, acc, Head(plugins)), Tail(plugins))

\* generate_config, lines 149-166: themes_to_process, deduplicated
themes_to_process(theme, themes, theme_parent, theme_child) ==
    LET with_parent == IF Truthy(theme_parent) THEN <<theme_parent>> ELSE <<>>
        with_child ==
            IF Truthy(theme_child) /\ theme_child # theme_parent
            THEN Append(with_parent, theme_child)
            ELSE with_parent
        fallback ==
            IF with_child = <<>> /\ Truthy(theme)
            THEN Append(with_child, theme)
            ELSE with_child
    IN  dict_fromkeys(IF Truthy(themes) THEN themes ELSE fallback)

\* generate_config, lines 170-184: the body of `for theme_name in themes_to_process`
process_theme(self, acc, theme_name) ==
    LET rucss_theme_settings == get_theme_rucss_optimizations(self, theme_name)
        delayjs_theme_settings == get_theme_delayjs_optimizations(self, theme_name)
        js_theme_settings == get_theme_js_optimizations(self, theme_name)
    IN  [acc EXCEPT
            !.rucss_excluded_stylesheets =
                IF Truthy(rucss_theme_settings)
                THEN @ \o dict_get(rucss_theme_settings, "rucss_excluded_stylesheets")
                ELSE @,
            !.themes_processed =
                IF Truthy(rucss_theme_settings) THEN @ + 1 ELSE @,
            !.delay_js_exclusions =
                IF Truthy(delayjs_theme_settings)
                THEN @ \o dict_get(delayjs_theme_settings, "delay_js_exclusions")
                ELSE @,
            !.js_exclusions =
                IF Truthy(js_theme_settings)
                THEN @ \o dict_get(js_theme_settings, "js_exclusions")
                ELSE @]

\* generate_config, lines 168-184: `for theme_name in themes_to_process`
RECURSIVE process_themes(_, _, _)
process_themes(self, acc, themes) ==
    IF themes = <<>> THEN acc
    ELSE process_themes(self, process_theme(self, acc, Head(themes)), Tail(themes))

\* generate_config, lines 193-200: one category written into assets
exclusion_string(l) == str_join("\n", dict_fromkeys(l))

\* Mutant of assemble: the Kadence override clears disable_emojis as well
assemble_kadence_clears_more(template, acc, to_process) ==
    LET assets == template.perfmatters_options.assets
        new_assets ==
            [assets EXCEPT
                !.js_exclusions = exclusion_string(acc.js_exclusions),
                !.delay_js_exclusions = exclusion_string(acc.delay_js_exclusions),
                !.rucss_excluded_stylesheets = exclusion_string(acc.rucss_excluded_stylesheets),
                !.rucss_excluded_selectors = exclusion_string(acc.rucss_excluded_selectors),
                !.minify_css_exclusions = exclusion_string(acc.minify_css_exclusions),
                !.minify_js_exclusions = exclusion_string(acc.minify_js_exclusions)]
        with_assets == [template EXCEPT !.perfmatters_options.assets = new_assets]
    IN  IF is_kadence_theme(to_process)
        THEN [with_assets EXCEPT !.perfmatters_options.remove_comment_urls = "",
                                 !.perfmatters_options.disable_emojis = ""]
        ELSE with_assets

\* generate_config, lines 186-205: the template parsed and filled in
assemble(template, acc, to_process) ==
    LET assets == template.perfmatters_options.assets
        new_assets ==
            [assets EXCEPT
                !.js_exclusions = exclusion_string(acc.js_exclusions),
                !.delay_js_exclusions = exclusion_string(acc.delay_js_exclusions),
                !.rucss_excluded_stylesheets = exclusion_string(acc.rucss_excluded_stylesheets),
                !.rucss_excluded_selectors = exclusion_string(acc.rucss_excluded_selectors),
                !.minify_css_exclusions = exclusion_string(acc.minify_css_exclusions),
                !.minify_js_exclusions = exclusion_string(acc.minify_js_exclusions)]
        with_assets == [template EXCEPT !.perfmatters_options.assets = new_assets]
    IN  IF is_kadence_theme(to_process)
        THEN [with_assets EXCEPT !.perfmatters_options.remove_comment_urls = ""]
        ELSE with_assets

\* Mutant of collect_exclusions: the two counters are kept between calls,
\* each call goes on from those of the call before
collect_exclusions_carried_over(self, plugins, theme, domain, analyze_domain, themes, theme_parent, theme_child, page) ==
    LET universal == collect_universal(self)
        carried ==
            IF returned = <<>> THEN universal
            ELSE [universal EXCEPT
                    !.plugins_processed =
                        returned[Len(returned)].processing_info.plugins_processed,
                    !.themes_processed =
                        returned[Len(returned)].processing_info.themes_processed]
        with_ads == collect_ad_exclusions(carried, domain, analyze_domain, page)
        with_plugins == process_plugins(self, with_ads, plugins)
        to_process == themes_to_process(theme, themes, theme_parent, theme_child)
    IN  process_themes(self, with_plugins, to_process)

\* generate_config, lines 92-184: the six lists and the two counters before
\* the template is touched.  page is what the detector's fetch of the domain
\* would bring back.
collect_exclusions(self, plugins, theme, domain, analyze_domain, themes, theme_parent, theme_child, page) ==
    LET universal == collect_universal(self)
        with_ads == collect_ad_exclusions(universal, domain, analyze_domain, page)
        with_plugins == process_plugins(self, with_ads, plugins)
        to_process == themes_to_process(theme, themes, theme_parent, theme_child)
    IN  process_themes(self, with_plugins, to_process)

\* Mutant of build_result: the providers whose exclusions were merged are
\* named in detected_ad_providers
build_result_naming_providers(parsed, acc, to_process) ==
    IF parsed.raised
    THEN [raised |-> TRUE]
    ELSE [raised |-> FALSE,
          config |-> assemble(parsed.value, acc, to_process),
          processing_info |->
            [plugins_processed |-> acc.plugins_processed,
             themes_processed |-> acc.themes_processed],
          detected_ad_providers |->
            IF acc.minify_js_exclusions # <<>> THEN <<"detected">> ELSE <<>>]

\* generate_config, lines 186-212: the value returned for the collected
\* lists, or the json.JSONDecodeError of the template re-raised.  The list
\* detected_ad_providers of line 118 is never appended to.
build_result(parsed, acc, to_process) ==
    IF parsed.raised
    THEN [raised |-> TRUE]
    ELSE [raised |-> FALSE,
          config |-> assemble(parsed.value, acc, to_process),
          processing_info |->
            [plugins_processed |-> acc.plugins_processed,
             themes_processed |-> acc.themes_processed],
          detected_ad_providers |-> <<>>]

\* The kind of JSON value a dictionary holds under a category.  A value that
\* is not an object is not kept as a field of the model's dictionary but named
\* in its field not_objects, category |-> "null" or "list".
json_kind(d, category) ==
    IF "not_objects" \in DOMAIN d /\ category \in DOMAIN d.not_objects
    THEN d.not_objects[category]
    ELSE IF category \in DOMAIN d THEN "object" ELSE "missing"

\* The lookups of generate_config that raise.  `d.get('universal', {}).get(..)`
\* (lines 106-115) raises AttributeError for a universal that is null or a
\* list; `plugin_key in plugins_config` (lines 219, 230, 241) and
\* `theme_key in themes_config` (lines 252, 264, 276) raise TypeError for a
\* category that is null, and find nothing in a list.
universal_raises(self) ==
    \E d \in {self.rucss_dict, self.delayjs_dict, self.js_dict} :
        json_kind(d, "universal") \in {"null", "list"}
store_raises(self, plugins, to_process) ==
    \E d \in {self.rucss_dict, self.delayjs_dict, self.js_dict} :
        \/ universal_raises(self)
        \/ plugins # <<>> /\ json_kind(d, "plugins") = "null"
        \/ to_process # <<>> /\ json_kind(d, "themes") = "null"

\* PerfmattersConfigGenerator.generate_config
generate_config(self, plugins, theme, domain, analyze_domain, themes, theme_parent, theme_child, page) ==
    IF store_raises(self, plugins, themes_to_process(theme, themes, theme_parent, theme_child))
    THEN [raised |-> TRUE]
    ELSE build_result(
            json_loads(self.template_string),
            collect_exclusions(self, plugins, theme, domain, analyze_domain,
                               themes, theme_parent, theme_child, page),
            themes_to_process(theme, themes, theme_parent, theme_child))

----------------------------------------------------------------------------
(* Configuration files and load_configurations *)

\* A file on disk: absent, or present with a text that is JSON for doc or not
MissingFile == [exists |-> FALSE, is_json |-> FALSE, doc |-> <<>>]
InvalidFile == [exists |-> TRUE, is_json |-> FALSE, doc |-> <<>>]
ValidFile(d) == [exists |-> TRUE, is_json |-> TRUE, doc |-> d]

TemplateFiles == {MissingFile, InvalidFile, ValidFile(TemplateDoc)}
RucssFiles == {MissingFile, InvalidFile} \cup {ValidFile(d) : d \in RucssDicts}
DelayjsFiles == {MissingFile, InvalidFile} \cup {ValidFile(d) : d \in DelayjsDicts}
JsFiles == {MissingFile, InvalidFile} \cup {ValidFile(d) : d \in JsDicts}

FileSets ==
    [template : TemplateFiles, rucss : RucssFiles, delayjs : DelayjsFiles, js : JsFiles]
NoFiles ==
    [template |-> MissingFile, rucss |-> MissingFile,
     delayjs |-> MissingFile, js |-> MissingFile]

\* open(path).read() followed by nothing (the template) or json.load (the
\* dictionaries): FileNotFoundError or json.JSONDecodeError
read_raises(file) == ~file.exists
load_raises(file) == ~file.exists \/ ~file.is_json

\* PerfmattersConfigGenerator.load_configurations: the four attributes are
\* assigned one after the other, an exception leaves the later ones alone
load_configurations(self, files) ==
    IF read_raises(files.template) THEN [raised |-> TRUE, self |-> self]
    ELSE LET s1 == [self EXCEPT !.template_string =
                        [is_json |-> files.template.is_json, doc |-> files.template.doc]]
         IN  IF load_raises(files.rucss) THEN [raised |-> TRUE, self |-> s1]
             ELSE LET s2 == [s1 EXCEPT !.rucss_dict = files.rucss.doc]
                  IN  IF load_raises(files.delayjs) THEN [raised |-> TRUE, self |-> s2]
                      ELSE LET s3 == [s2 EXCEPT !.delayjs_dict = files.delayjs.doc]
                           IN  IF load_raises(files.js) THEN [raised |-> TRUE, self |-> s3]
                               ELSE [raised |-> FALSE,
                                     self |-> [s3 EXCEPT !.js_dict = files.js.doc]]

\* PerfmattersConfigGenerator.__init__ before load_configurations
NewGenerator ==
    [template_string |-> TemplateBad, rucss_dict |-> EmptyDict,
     delayjs_dict |-> EmptyDict, js_dict |-> EmptyDict]

\* The global config_generator as a value
Self ==
    [template_string |-> template_string, rucss_dict |-> rucss_dict,
     delayjs_dict |-> delayjs_dict, js_dict |-> js_dict]

----------------------------------------------------------------------------
(* HTTP requests and responses *)

\* A request: the route, the kind of body, the fields the JSON object has and
\* their values (a field that is absent has the value shown in NoRequest),
\* the page the detector would fetch, the files a reload would read
NoRequest ==
    [route |-> "none", body |-> "none", has |-> {}, plugins_is_list |-> TRUE,
     plugins |-> <<>>, theme |-> <<>>, themes |-> <<>>, theme_parent |-> <<>>,
     theme_child |-> <<>>, domain |-> <<>>, analyze_domain |-> FALSE,
     page |-> PageFail, files |-> NoFiles]

NoResponse ==
    [status |-> 0, success |-> FALSE, error |-> "", config |-> <<>>,
     processing_info |-> <<>>, saved |-> FALSE, metadata |-> <<>>]

NoCall ==
    [made |-> FALSE, plugins |-> <<>>, theme |-> <<>>, themes |-> <<>>,
     theme_parent |-> <<>>, theme_child |-> <<>>, domain |-> <<>>,
     analyze_domain |-> FALSE, themes_to_process |-> <<>>, raised |-> FALSE,
     fetch_made |-> FALSE]

ExampleDomain == <<"example.com">>

PluginLists == SeqsUpTo(RawPlugins, MaxPlugins)
ThemeLists == SeqsUpTo(RawThemes, MaxThemes)
OptionalLegacy == {<<>>} \cup LegacyThemes

\* data of a /generate-config request: only the non-empty fields are present
GenRequest(plugins, theme, themes_given, themes, theme_parent, theme_child, domain, analyze_domain, page) ==
    [NoRequest EXCEPT
        !.route = "/generate-config",
        !.body = "object",
        !.has = {"plugins"}
                \cup (IF theme # <<>> THEN {"theme"} ELSE {})
                \cup (IF themes_given THEN {"themes"} ELSE {})
                \cup (IF theme_parent # <<>> THEN {"theme_parent"} ELSE {})
                \cup (IF theme_child # <<>> THEN {"theme_child"} ELSE {})
                \cup (IF domain # <<>> THEN {"domain"} ELSE {})
                \cup (IF analyze_domain THEN {"analyze_domain"} ELSE {}),
        !.plugins = plugins,
        !.theme = theme,
        !.themes = themes,
        !.theme_parent = theme_parent,
        !.theme_child = theme_child,
        !.domain = domain,
        !.analyze_domain = analyze_domain,
        !.page = page]

\* The explored /generate-config requests
ThemesRequests ==
    {GenRequest(p, <<>>, TRUE, t, <<>>, <<>>, <<>>, FALSE, PageFail) :
        p \in PluginLists, t \in ThemeLists}
LegacyRequests ==
    {GenRequest(p, th, g, IF g THEN t ELSE <<>>, tp, tc, <<>>, FALSE, PageFail) :
        p \in SeqsUpTo(RawPlugins, 1), th \in OptionalLegacy, g \in BOOLEAN,
        t \in SeqsUpTo(RawThemes, 1), tp \in OptionalLegacy, tc \in OptionalLegacy}
DetectionRequests ==
    {GenRequest(p, <<>>, TRUE, t, <<>>, <<>>, ExampleDomain, TRUE, page) :
        p \in PluginLists, t \in SeqsUpTo(RawThemes, 1), page \in Pages}
    \cup {GenRequest(p, <<>>, TRUE, t, <<>>, <<>>, d, a, PageBoth) :
            p \in SeqsUpTo(RawPlugins, 1), t \in SeqsUpTo(RawThemes, 1),
            d \in {<<>>, ExampleDomain}, a \in BOOLEAN}
\* body is what the request carries: "not-json" has no JSON content type,
\* "unparseable" has the content type and a body that is not JSON, "null" and
\* "array" are the JSON values null and [], "object" is a JSON object
MalformedRequests ==
    {[NoRequest EXCEPT !.route = "/generate-config", !.body = "not-json"],
     [NoRequest EXCEPT !.route = "/generate-config", !.body = "unparseable"],
     [NoRequest EXCEPT !.route = "/generate-config", !.body = "null"],
     [NoRequest EXCEPT !.route = "/generate-config", !.body = "array"],
     [NoRequest EXCEPT !.route = "/generate-config", !.body = "object",
                       !.has = {"theme"}, !.theme = k_astra],
     [NoRequest EXCEPT !.route = "/generate-config", !.body = "object",
                       !.has = {"plugins"}, !.plugins_is_list = FALSE]}
GenRequests ==
    ThemesRequests \cup LegacyRequests \cup DetectionRequests \cup MalformedRequests

\* data.get(field, default)
data_get(data, field, default) == IF field \in data.has THEN data[field] ELSE default

Error(status, message) ==
    [NoResponse EXCEPT !.status = status, !.error = message]

\* The /generate-config route, lines 577-648: the answer for the value
\* generate_config returned, or for the exception it raised.  metadata is
\* what the route saves with the configuration and hands to the usage log
\* about the detection.
answer(result) ==
    IF result.raised
    THEN Error(500, "Internal server error")
    ELSE [status |-> 200, success |-> TRUE, error |-> "",
          config |-> result.config,
          processing_info |-> result.processing_info,
          saved |-> TRUE,
          metadata |-> [detected_ad_providers |-> result.detected_ad_providers]]

\* The /generate-config route, lines 551-575: the arguments handed to
\* config_generator.generate_config
arguments(data) ==
    [NoCall EXCEPT
        !.made = TRUE,
        !.plugins = data_get(data, "plugins", <<>>),
        !.theme = data_get(data, "theme", k_default),
        !.themes = data_get(data, "themes", <<data_get(data, "theme", k_default)>>),
        !.theme_parent = data_get(data, "theme_parent", data_get(data, "theme", k_default)),
        !.theme_child = data_get(data, "theme_child", data_get(data, "theme", k_default)),
        !.domain = data_get(data, "domain", <<>>),
        !.analyze_domain = data_get(data, "analyze_domain", FALSE)]

\* The call of config_generator.generate_config and what was observed of it:
\* whether it raised, and whether it called the detector, which fetches the
\* page of the domain
called(self, args, page) ==
    LET result == generate_config(self, args.plugins, args.theme, args.domain,
                                  args.analyze_domain, args.themes,
                                  args.theme_parent, args.theme_child, page)
    IN  [result |-> result,
         call |-> [args EXCEPT
                    !.themes_to_process =
                        themes_to_process(args.theme, args.themes,
                                          args.theme_parent, args.theme_child),
                    !.raised = result.raised,
                    !.fetch_made =
                        /\ ~universal_raises(self)
                        /\ detector_called(args.domain, args.analyze_domain)]]

\* The /generate-config route: the response and the record of the call made
\* to config_generator.generate_config
\* request.get_json() raises BadRequest for a body that does not parse, and
\* `'plugins' not in data` raises TypeError for data None; both are caught by
\* the `except Exception` of line 631
route_generate_config(self, data) ==
    IF data.body = "not-json"
    THEN [response |-> Error(400, "Request must be JSON"), call |-> NoCall]
    ELSE IF data.body \in {"unparseable", "null"}
    THEN [response |-> Error(500, "Internal server error"), call |-> NoCall]
    ELSE IF "plugins" \notin data.has
    THEN [response |-> Error(400, "plugins field is required"), call |-> NoCall]
    ELSE IF ~data.plugins_is_list
    THEN [response |-> Error(400, "plugins must be an array"), call |-> NoCall]
    ELSE LET done == called(self, arguments(data), data.page)
         IN  [response |-> answer(done.result), call |-> done.call]

----------------------------------------------------------------------------
(* Threads of one process (app.run) and worker processes (gunicorn) *)

\* The attributes load_configurations assigns, in its order, and the file
\* each is read from
Attributes == <<"template_string", "rucss_dict", "delayjs_dict", "js_dict">>
AttributeFile == <<"template", "rucss", "delayjs", "js">>

\* A second template, and the files on disk before and after new ones are
\* put in place
TemplateDocB == [TemplateDoc EXCEPT !.version = "2.2"]
DiskA ==
    [template |-> ValidFile(TemplateDoc), rucss |-> ValidFile(RucssA),
     delayjs |-> ValidFile(DelayjsA), js |-> ValidFile(JsA)]
DiskB ==
    [template |-> ValidFile(TemplateDocB), rucss |-> ValidFile(RucssB),
     delayjs |-> ValidFile(DelayjsB), js |-> ValidFile(JsB)]

\* A thread in load_configurations: pc 2k-1 is before the read of file k,
\* pc 2k before the assignment of attribute k, DonePc after the last
\* assignment, RaisedPc after an exception; value is what was read last,
\* loaded what the thread has assigned so far
DonePc == 9
RaisedPc == 10
NewReload == [pc |-> 1, value |-> <<>>, loaded |-> <<>>]

\* The attribute of self each read of generate_config takes, in order, for
\* no plugin and one entry in themes_to_process: lines 105, 109, 113, then
\* the three theme lookups of lines 171-183, then line 188
ReadOrder ==
    <<"rucss_dict", "delayjs_dict", "js_dict",
      "rucss_dict", "delayjs_dict", "js_dict", "template_string">>
NewReader ==
    [pc |-> 1, seen |-> [a \in Range(Attributes) |-> {}]]

ThreadsIdle ==
    /\ disk = DiskA
    /\ reloads = <<>>
    /\ reader = NewReader

\* gunicorn.conf.py: workers
NumWorkers == 2

NoPublished == [valid |-> FALSE, self |-> NewGenerator]
NoServed == [made |-> FALSE, worker |-> 0, data |-> NoRequest, response |-> NoResponse]

\* A browser that has sent nothing yet: an empty session, no answer, and no
\* saved configuration
NoWeb == [route |-> "none", status |-> 0, body |-> "none", configs |-> {}]
AuthIdle ==
    /\ session = <<>>
    /\ web = NoWeb
    /\ generated_configs = {}

WorkersIdle ==
    /\ workers = <<>>
    /\ published = NoPublished
    /\ served = NoServed

----------------------------------------------------------------------------
(* The state machine *)

Init ==
    /\ \E files \in FileSets :
          LET loaded == load_configurations(NewGenerator, files)
          IN  /\ ~loaded.raised
              /\ template_string = loaded.self.template_string
              /\ rucss_dict = loaded.self.rucss_dict
              /\ delayjs_dict = loaded.self.delayjs_dict
              /\ js_dict = loaded.self.js_dict
    /\ request = NoRequest
    /\ response = NoResponse
    /\ call = NoCall
    /\ norm_fn = "none"
    /\ norm_in = <<>>
    /\ norm_x = <<>>
    /\ norm_prev = <<>>
    /\ norm_steps = 0
    /\ heap = <<>>
    /\ returned = <<>>
    /\ ThreadsIdle
    /\ WorkersIdle
    /\ AuthIdle

\* POST /generate-config
GenerateConfig ==
    /\ request = NoRequest
    /\ \E data \in GenRequests :
          \E handled \in {route_generate_config(Self, data)} :
              /\ request' = data
              /\ response' = handled.response
              /\ call' = handled.call
    /\ UNCHANGED <<store_vars, norm_vars, calls_vars, thread_vars, worker_vars, auth_vars>>

\* POST /reload-config
ReloadConfig ==
    /\ request = NoRequest
    /\ \E files \in FileSets :
          \E loaded \in {load_configurations(Self, files)} :
              /\ request' = [NoRequest EXCEPT !.route = "/reload-config", !.files = files]
              /\ template_string' = loaded.self.template_string
              /\ rucss_dict' = loaded.self.rucss_dict
              /\ delayjs_dict' = loaded.self.delayjs_dict
              /\ js_dict' = loaded.self.js_dict
              /\ response' =
                    IF loaded.raised
                    THEN Error(500, "load_configurations raised")
                    ELSE [NoResponse EXCEPT !.status = 200, !.success = TRUE]
    /\ call' = NoCall
    /\ UNCHANGED <<norm_vars, calls_vars, thread_vars, worker_vars, auth_vars>>

\* The handler returns: the response is sent and the request is over
Return ==
    /\ request # NoRequest
    /\ request' = NoRequest
    /\ response' = NoResponse
    /\ call' = NoCall
    /\ UNCHANGED <<store_vars, norm_vars, calls_vars, thread_vars, worker_vars, auth_vars>>

Next == GenerateConfig \/ ReloadConfig \/ Return

Spec == Init /\ [][Next]_vars

----------------------------------------------------------------------------
(* The normalizers on their own *)

NormAlphabet == {"a", "A", " ", "_", "-", "/", "1", ".", "v", "\n", "\t"}

InitNorm ==
    /\ template_string = TemplateGood
    /\ rucss_dict = RucssA
    /\ delayjs_dict = DelayjsA
    /\ js_dict = JsA
    /\ request = NoRequest
    /\ response = NoResponse
    /\ call = NoCall
    /\ norm_fn = "none"
    /\ norm_in \in SeqsUpTo(NormAlphabet, MaxStrLen)
    /\ norm_x = norm_in
    /\ norm_prev = norm_in
    /\ norm_steps = 0
    /\ heap = <<>>
    /\ returned = <<>>
    /\ ThreadsIdle
    /\ WorkersIdle
    /\ AuthIdle

\* _normalize_plugin_name applied to the current value
NormalizePlugin ==
    /\ norm_fn \in {"none", "plugin"}
    /\ norm_steps < MaxApply
    /\ norm_fn' = "plugin"
    /\ norm_prev' = norm_x
    /\ norm_x' = normalize_plugin_name(norm_x)
    /\ norm_steps' = norm_steps + 1
    /\ UNCHANGED <<norm_in, store_vars, http_vars, calls_vars, thread_vars, worker_vars, auth_vars>>

\* _normalize_theme_name applied to the current value
NormalizeTheme ==
    /\ norm_fn \in {"none", "theme"}
    /\ norm_steps < MaxApply
    /\ norm_fn' = "theme"
    /\ norm_prev' = norm_x
    /\ norm_x' = normalize_theme_name(norm_x)
    /\ norm_steps' = norm_steps + 1
    /\ UNCHANGED <<norm_in, store_vars, http_vars, calls_vars, thread_vars, worker_vars, auth_vars>>

NextNorm == NormalizePlugin \/ NormalizeTheme

SpecNorm == InitNorm /\ [][NextNorm]_vars

----------------------------------------------------------------------------
(* generate_config called several times on one generator.  Every object the
   function creates has an identity: its index in heap. *)

\* Mutant of new_object: the template is parsed once and that one object is
\* handed out by every call
new_object_shared(objects) == 1

\* json.loads(self.template_string), line 188: a new object on every call
new_object(objects) == Len(objects) + 1

\* The assignments of lines 193-205 are made in the object final_config
\* refers to
store_object(objects, final_config, value) ==
    IF final_config \in DOMAIN objects
    THEN [objects EXCEPT ![final_config] = value]
    ELSE Append(objects, value)

\* The arguments of the explored calls: no domain, no detection
CallPlugins == {<<>>, <<r_Woo>>, <<r_Woo, k_elem>>}
CallThemes == {<<>>, <<r_Astra>>, <<r_KadenceChild>>}

\* config_generator.generate_config(plugins, theme, themes=themes): nothing
\* of self is assigned, the lists and processing_info are local, and the
\* configuration is written into the object json.loads created
CallGenerateConfig ==
    /\ Len(returned) < MaxCalls
    /\ \E plugins \in CallPlugins, themes \in CallThemes :
          \E result \in {generate_config(Self, plugins, k_default, <<>>, FALSE,
                                         themes, <<>>, <<>>, PageFail)} :
              IF result.raised
              THEN UNCHANGED calls_vars
              ELSE \E final_config \in {new_object(heap)} :
                      /\ heap' = store_object(heap, final_config, result.config)
                      /\ returned' =
                            Append(returned,
                                   [plugins |-> plugins,
                                    themes |-> themes,
                                    self |-> Self,
                                    object |-> final_config,
                                    config |-> result.config,
                                    processing_info |-> result.processing_info,
                                    written |-> FALSE])
    /\ UNCHANGED <<store_vars, http_vars, norm_vars, thread_vars, worker_vars, auth_vars>>

\* The caller of an earlier call writes into the configuration it was given
WriteReturned ==
    /\ \E i \in 1..Len(returned) :
          /\ ~returned[i].written
          /\ heap' = [heap EXCEPT
                        ![returned[i].object].perfmatters_options.assets.js_exclusions =
                            <<"caller.js">>]
          /\ returned' = [returned EXCEPT ![i].written = TRUE]
    /\ UNCHANGED <<store_vars, http_vars, norm_vars, thread_vars, worker_vars, auth_vars>>

NextCalls == CallGenerateConfig \/ WriteReturned

SpecCalls == Init /\ [][NextCalls]_vars

----------------------------------------------------------------------------
(* load_configurations and generate_config as threads of one process: the
   server app.run starts handles each request in a thread of its own, and
   nothing in the code serializes the handlers *)

\* self.<attribute>
self_get(attribute) ==
    IF attribute = "template_string" THEN template_string
    ELSE IF attribute = "rucss_dict" THEN rucss_dict
    ELSE IF attribute = "delayjs_dict" THEN delayjs_dict
    ELSE js_dict

\* What reading file k gives: the text of the template, the parsed document
\* of a dictionary
file_value(k, file) ==
    IF k = 1 THEN [is_json |-> file.is_json, doc |-> file.doc] ELSE file.doc
file_raises(k, file) ==
    IF k = 1 THEN read_raises(file) ELSE load_raises(file)

InitThreads ==
    /\ \E loaded \in {load_configurations(NewGenerator, DiskA)} :
          /\ template_string = loaded.self.template_string
          /\ rucss_dict = loaded.self.rucss_dict
          /\ delayjs_dict = loaded.self.delayjs_dict
          /\ js_dict = loaded.self.js_dict
    /\ request = NoRequest
    /\ response = NoResponse
    /\ call = NoCall
    /\ norm_fn = "none"
    /\ norm_in = <<>>
    /\ norm_x = <<>>
    /\ norm_prev = <<>>
    /\ norm_steps = 0
    /\ heap = <<>>
    /\ returned = <<>>
    /\ disk = DiskA
    /\ reloads = [t \in 1..MaxReloads |-> NewReload]
    /\ reader = NewReader
    /\ WorkersIdle
    /\ AuthIdle

\* New files are put in place on disk
Deploy ==
    /\ disk = DiskA
    /\ disk' = DiskB
    /\ UNCHANGED <<reloads, reader, store_vars, http_vars, norm_vars, calls_vars, worker_vars, auth_vars>>

\* load_configurations, lines 57-58, 63-64, 69-70, 75-76: a file is opened
\* and read (and parsed); a missing or unparseable file raises
ReloadRead(t) ==
    /\ reloads[t].pc < DonePc
    /\ reloads[t].pc % 2 = 1
    /\ LET k == (reloads[t].pc + 1) \div 2
           file == disk[AttributeFile[k]]
       IN  reloads' =
              [reloads EXCEPT
                 ![t].pc = IF file_raises(k, file) THEN RaisedPc ELSE @ + 1,
                 ![t].value = IF file_raises(k, file) THEN <<>> ELSE file_value(k, file)]
    /\ UNCHANGED <<disk, reader, store_vars, http_vars, norm_vars, calls_vars, worker_vars, auth_vars>>

\* load_configurations: the value read is assigned to the attribute
ReloadAssign(t) ==
    /\ reloads[t].pc < DonePc
    /\ reloads[t].pc % 2 = 0
    /\ LET k == reloads[t].pc \div 2
           v == reloads[t].value
       IN  /\ template_string' = IF k = 1 THEN v ELSE template_string
           /\ rucss_dict' = IF k = 2 THEN v ELSE rucss_dict
           /\ delayjs_dict' = IF k = 3 THEN v ELSE delayjs_dict
           /\ js_dict' = IF k = 4 THEN v ELSE js_dict
           /\ reloads' =
                 [reloads EXCEPT
                    ![t].pc = @ + 1,
                    ![t].value = <<>>,
                    ![t].loaded = (Attributes[k] :> v) @@ @]
    /\ UNCHANGED <<disk, reader, http_vars, norm_vars, calls_vars, worker_vars, auth_vars>>

\* generate_config: the next read of an attribute of self
ReaderRead ==
    /\ reader.pc <= Len(ReadOrder)
    /\ LET a == ReadOrder[reader.pc]
       IN  reader' = [reader EXCEPT !.pc = @ + 1,
                                    !.seen[a] = @ \cup {self_get(a)}]
    /\ UNCHANGED <<disk, reloads, store_vars, http_vars, norm_vars, calls_vars, worker_vars, auth_vars>>

NextThreads ==
    \/ Deploy
    \/ \E t \in 1..MaxReloads : ReloadRead(t)
    \/ \E t \in 1..MaxReloads : ReloadAssign(t)
    \/ ReaderRead

SpecThreads == InitThreads /\ [][NextThreads]_vars

----------------------------------------------------------------------------
(* The deployment of gunicorn.conf.py: NumWorkers processes forked from a
   master that has imported the application (preload_app), each with its own
   copy of config_generator; a request goes to whichever worker accepts it *)

\* The files a reload may find on disk
ReloadDisks ==
    {DiskA, DiskB, [DiskB EXCEPT !.js = MissingFile],
     [DiskA EXCEPT !.delayjs = ValidFile(DelayjsB)]}

\* The explored /generate-config requests
WorkerRequests ==
    {GenRequest(<<>>, <<>>, TRUE, <<>>, <<>>, <<>>, <<>>, FALSE, PageFail),
     GenRequest(<<r_Woo>>, <<>>, TRUE, <<r_Astra>>, <<>>, <<>>, <<>>, FALSE, PageFail),
     GenRequest(<<k_elem>>, <<>>, TRUE, <<r_KadenceChild>>, <<>>, <<>>, <<>>, FALSE, PageFail)}

InitWorkers ==
    /\ \E loaded \in {load_configurations(NewGenerator, DiskA)} :
          /\ template_string = loaded.self.template_string
          /\ rucss_dict = loaded.self.rucss_dict
          /\ delayjs_dict = loaded.self.delayjs_dict
          /\ js_dict = loaded.self.js_dict
          /\ workers = [w \in 1..NumWorkers |-> loaded.self]
    /\ request = NoRequest
    /\ response = NoResponse
    /\ call = NoCall
    /\ norm_fn = "none"
    /\ norm_in = <<>>
    /\ norm_x = <<>>
    /\ norm_prev = <<>>
    /\ norm_steps = 0
    /\ heap = <<>>
    /\ returned = <<>>
    /\ ThreadsIdle
    /\ AuthIdle
    /\ published = NoPublished
    /\ served = NoServed

\* POST /reload-config handled by worker w
WorkerReload(w) ==
    /\ \E files \in ReloadDisks :
          \E loaded \in {load_configurations(workers[w], files)} :
              /\ workers' = [workers EXCEPT ![w] = loaded.self]
              /\ published' =
                    IF loaded.raised THEN published
                    ELSE [valid |-> TRUE, self |-> loaded.self]
    /\ served' = NoServed
    /\ UNCHANGED <<store_vars, http_vars, norm_vars, calls_vars, thread_vars, auth_vars>>

\* POST /generate-config handled by worker w
WorkerGenerate(w) ==
    /\ \E data \in WorkerRequests :
          \E handled \in {route_generate_config(workers[w], data)} :
              served' = [made |-> TRUE, worker |-> w, data |-> data,
                         response |-> handled.response]
    /\ UNCHANGED <<workers, published>>
    /\ UNCHANGED <<store_vars, http_vars, norm_vars, calls_vars, thread_vars, auth_vars>>

NextWorkers ==
    \/ \E w \in 1..NumWorkers : WorkerReload(w)
    \/ \E w \in 1..NumWorkers : WorkerGenerate(w)

SpecWorkers == InitWorkers /\ [][NextWorkers]_vars

----------------------------------------------------------------------------
(* SpecShapes: generate_config over dictionaries whose categories are
   missing or are not objects *)

\* dictionary_delayjs.json with "plugins": null, dictionary_js.json with
\* "universal": [], dictionary_rucss.json with "themes": []
DelayjsNullPlugins ==
    [universal |-> DelayjsA.universal, themes |-> DelayjsA.themes,
     not_objects |-> [plugins |-> "null"]]
JsListUniversal ==
    [plugins |-> JsA.plugins, themes |-> JsA.themes,
     not_objects |-> [universal |-> "list"]]
RucssListThemes ==
    [universal |-> RucssA.universal, plugins |-> RucssA.plugins,
     not_objects |-> [themes |-> "list"]]

ShapeFileSets ==
    [template : {ValidFile(TemplateDoc)},
     rucss : {ValidFile(RucssA), ValidFile(EmptyDict), ValidFile(RucssListThemes)},
     delayjs : {ValidFile(DelayjsA), ValidFile(DelayjsNullPlugins)},
     js : {ValidFile(JsA), ValidFile(JsListUniversal)}]

InitShapes ==
    /\ \E files \in ShapeFileSets :
          \E loaded \in {load_configurations(NewGenerator, files)} :
              /\ ~loaded.raised
              /\ template_string = loaded.self.template_string
              /\ rucss_dict = loaded.self.rucss_dict
              /\ delayjs_dict = loaded.self.delayjs_dict
              /\ js_dict = loaded.self.js_dict
    /\ request = NoRequest
    /\ response = NoResponse
    /\ call = NoCall
    /\ norm_fn = "none"
    /\ norm_in = <<>>
    /\ norm_x = <<>>
    /\ norm_prev = <<>>
    /\ norm_steps = 0
    /\ heap = <<>>
    /\ returned = <<>>
    /\ ThreadsIdle
    /\ WorkersIdle
    /\ AuthIdle

NextShapes == GenerateConfig \/ Return

SpecShapes == InitShapes /\ [][NextShapes]_vars

----------------------------------------------------------------------------
(* SpecAuth: the dashboard's session authentication, one browser *)

\* secrets.token_hex(16) and bcrypt.gensalt(): a fresh random value at every
\* call, here one of a few
SessionIds == 1..MaxSessionIds
Salts == 1..MaxSalts

\* app.secret_key, and DASHBOARD_PASSWORD with the passwords a browser sends
server_secret == "secret_key"
stored_password == "admin123"
Passwords == {"admin123", "guess"}

\* session.get(key, default)
session_get(sess, key, default) == IF key \in DOMAIN sess THEN sess[key] ELSE default

\* bcrypt.hashpw(password, salt): the string "$2b$12$", the 22 characters of
\* the salt, then the 31 characters of the hash of password under that salt
bcrypt_hashpw(password, salt) == [salt |-> salt, hash |-> <<password, salt>>]

\* get_auth_token: the first 32 characters of the bcrypt string, which are
\* the prefix, the whole salt and 3 characters of the hash.  The session id
\* of a session without one is '', here 0.
get_auth_token(sess, salt) ==
    bcrypt_hashpw(<<session_get(sess, "session_id", 0), server_secret>>, salt)

\* is_authenticated, where salt is the one its get_auth_token() draws; a
\* session without auth_token has None there, which equals no token
is_authenticated(sess, salt) ==
    /\ session_get(sess, "authenticated", FALSE)
    /\ "auth_token" \in DOMAIN sess
    /\ sess.auth_token = get_auth_token(sess, salt)

\* verify_password
verify_password(password) == password = stored_password

\* Answers of the dashboard routes
Redirect(route, target) ==
    [route |-> route, status |-> 302, body |-> target, configs |-> {}]
Page(route, body, configs) ==
    [route |-> route, status |-> 200, body |-> body, configs |-> configs]
Failure(route, status) ==
    [route |-> route, status |-> status, body |-> "error", configs |-> {}]

\* The file save_generated_config writes, and the names a browser asks
\* /download/<filename> for: those files and one that fails the name test
SavedName(n) == [prefix_ok |-> TRUE, suffix_ok |-> TRUE, stamp |-> n]
DownloadNames ==
    {SavedName(n) : n \in 1..MaxSaved}
        \cup {[prefix_ok |-> FALSE, suffix_ok |-> TRUE, stamp |-> 1]}

\* load_saved_configs
load_saved_configs(files) == files

\* The login route: salt is drawn by is_authenticated, session_id and
\* token_salt by the branch that stores the session
login(sess, method, password, salt, session_id, token_salt) ==
    IF is_authenticated(sess, salt)
    THEN [session |-> sess, web |-> Redirect("/login", "redirect:dashboard")]
    ELSE IF method = "POST"
    THEN IF verify_password(password)
         THEN LET identified == [session_id |-> session_id, authenticated |-> TRUE]
              IN  [session |->
                      [session_id |-> session_id, authenticated |-> TRUE,
                       auth_token |-> get_auth_token(identified, token_salt)],
                   web |-> Redirect("/login", "redirect:dashboard")]
         ELSE [session |-> sess, web |-> Page("/login", "login.html:error", {})]
    ELSE [session |-> sess, web |-> Page("/login", "login.html", {})]

\* require_auth around a view that answers with the saved configurations
require_auth(sess, salt, route, body, files) ==
    IF ~is_authenticated(sess, salt)
    THEN Redirect(route, "redirect:login")
    ELSE Page(route, body, load_saved_configs(files))

\* download_config: abort(404) is raised inside the try and caught by its
\* `except Exception`, which aborts with 500
download_config(filename, files) ==
    IF ~filename.prefix_ok \/ ~filename.suffix_ok THEN Failure("/download", 500)
    ELSE IF filename \notin files THEN Failure("/download", 500)
    ELSE Page("/download", "file", {filename})

InitAuth ==
    /\ template_string = NewGenerator.template_string
    /\ rucss_dict = NewGenerator.rucss_dict
    /\ delayjs_dict = NewGenerator.delayjs_dict
    /\ js_dict = NewGenerator.js_dict
    /\ request = NoRequest
    /\ response = NoResponse
    /\ call = NoCall
    /\ norm_fn = "none"
    /\ norm_in = <<>>
    /\ norm_x = <<>>
    /\ norm_prev = <<>>
    /\ norm_steps = 0
    /\ heap = <<>>
    /\ returned = <<>>
    /\ ThreadsIdle
    /\ WorkersIdle
    /\ AuthIdle

\* GET or POST /login
Login ==
    /\ \E method \in {"GET", "POST"}, password \in Passwords,
          salt \in Salts, session_id \in SessionIds, token_salt \in Salts :
          \E handled \in {login(session, method, password, salt, session_id, token_salt)} :
              /\ session' = handled.session
              /\ web' = handled.web
    /\ UNCHANGED generated_configs
    /\ UNCHANGED <<store_vars, http_vars, norm_vars, calls_vars, thread_vars, worker_vars>>

\* GET /logout
Logout ==
    /\ session' = <<>>
    /\ web' = Redirect("/logout", "redirect:login")
    /\ UNCHANGED generated_configs
    /\ UNCHANGED <<store_vars, http_vars, norm_vars, calls_vars, thread_vars, worker_vars>>

\* GET /
Dashboard ==
    /\ \E salt \in Salts :
          web' = require_auth(session, salt, "/", "dashboard.html", generated_configs)
    /\ UNCHANGED <<session, generated_configs>>
    /\ UNCHANGED <<store_vars, http_vars, norm_vars, calls_vars, thread_vars, worker_vars>>

\* GET /api/configs
ApiConfigs ==
    /\ \E salt \in Salts :
          web' = require_auth(session, salt, "/api/configs", "json", generated_configs)
    /\ UNCHANGED <<session, generated_configs>>
    /\ UNCHANGED <<store_vars, http_vars, norm_vars, calls_vars, thread_vars, worker_vars>>

\* GET /download/<filename>
Download ==
    /\ \E filename \in DownloadNames :
          web' = download_config(filename, generated_configs)
    /\ UNCHANGED <<session, generated_configs>>
    /\ UNCHANGED <<store_vars, http_vars, norm_vars, calls_vars, thread_vars, worker_vars>>

\* save_generated_config, called by /generate-config for any client: one
\* more file in the directory
SaveGeneratedConfig ==
    /\ Cardinality(generated_configs) < MaxSaved
    /\ generated_configs' =
          generated_configs \cup {SavedName(Cardinality(generated_configs) + 1)}
    /\ UNCHANGED <<session, web>>
    /\ UNCHANGED <<store_vars, http_vars, norm_vars, calls_vars, thread_vars, worker_vars>>

NextAuth ==
    Login \/ Logout \/ Dashboard \/ ApiConfigs \/ Download \/ SaveGeneratedConfig

SpecAuth == InitAuth /\ [][NextAuth]_vars

----------------------------------------------------------------------------
(* Vocabulary of the properties *)

\* A /generate-config request reached generate_config and was answered 200
Generated == call.made /\ response.status = 200

\* s.split("\n") of a written category: the pieces between the separators
str_split(field) == [i \in 1..((Len(field) + 1) \div 2) |-> field[2 * i - 1]]

\* The tokens of a category of the emitted configuration
OutTokens(cat) == str_split(response.config.perfmatters_options.assets[cat])

\* The lists generate_config had accumulated for the answered request
Accumulated ==
    collect_exclusions(Self, call.plugins, call.theme, call.domain,
                       call.analyze_domain, call.themes, call.theme_parent,
                       call.theme_child, request.page)

FirstIndex(l, x) == Min({i \in 1..Len(l) : l[i] = x})

NoDuplicates(l) == \A i, j \in 1..Len(l) : i # j => l[i] # l[j]

\* The dictionary a category is fed from, and the detector's key for it
DictFor(cat) ==
    IF cat = "rucss_excluded_stylesheets" THEN rucss_dict
    ELSE IF cat = "delay_js_exclusions" THEN delayjs_dict
    ELSE IF cat = "js_exclusions" THEN js_dict
    ELSE EmptyDict
AdKeyFor(cat) ==
    IF cat = "rucss_excluded_stylesheets" THEN "rucss_exclusions" ELSE cat

\* The tokens each step of the merge offers to a category
UniversalTokens(cat) == Range(dict_get(dict_get(DictFor(cat), "universal"), cat))
AdTokens(cat) ==
    IF call.analyze_domain /\ Truthy(call.domain)
    THEN Range(get_ad_exclusions(request.page)[AdKeyFor(cat)])
    ELSE {}
PluginTokens(i, cat) ==
    LET entries == dict_get(DictFor(cat), "plugins")
        key == normalize_plugin_name(call.plugins[i])
    IN  IF key \in DOMAIN entries THEN Range(dict_get(entries[key], cat)) ELSE {}
ThemeTokens(k, cat) ==
    LET entries == dict_get(DictFor(cat), "themes")
        key == normalize_theme_name(call.themes_to_process[k])
    IN  IF key \in DOMAIN entries THEN Range(dict_get(entries[key], cat)) ELSE {}

\* The steps that offer a token: 1 universal, 2 providers, then one step per
\* plugin entry, then one per theme entry
StepsOf(tok, cat) ==
    (IF tok \in UniversalTokens(cat) THEN {1} ELSE {})
    \cup (IF tok \in AdTokens(cat) THEN {2} ELSE {})
    \cup {2 + i : i \in {i \in 1..Len(call.plugins) : tok \in PluginTokens(i, cat)}}
    \cup {2 + Len(call.plugins) + k :
            k \in {k \in 1..Len(call.themes_to_process) : tok \in ThemeTokens(k, cat)}}

OfferedTokens(cat) ==
    UniversalTokens(cat) \cup AdTokens(cat)
    \cup UNION {PluginTokens(i, cat) : i \in 1..Len(call.plugins)}
    \cup UNION {ThemeTokens(k, cat) : k \in 1..Len(call.themes_to_process)}

----------------------------------------------------------------------------
(* Properties *)

\* C1: in every emitted configuration each of the six categories holds no
\* token twice, holds exactly the accumulated tokens, and orders them by the
\* position of their first occurrence in the accumulated list.
C1_DedupKeepsFirstPosition ==
    Generated =>
        LET all == Accumulated
        IN  \A cat \in Categories :
                LET out == OutTokens(cat)
                    acc == all[cat]
                    first == [i \in 1..Len(out) |-> FirstIndex(acc, out[i])]
                IN  /\ NoDuplicates(out)
                    /\ Range(out) = Range(acc)
                    /\ \A i, j \in 1..Len(out) : i < j => first[i] < first[j]

\* C1 witness: a token was contributed twice to a category, first by an
\* earlier fragment, and other tokens follow it in the output
C1_Witness ==
    /\ Generated
    /\ \E cat \in Categories :
          LET out == OutTokens(cat)
              acc == Accumulated[cat]
          IN  \E i, j \in 1..Len(acc) :
                /\ i < j
                /\ acc[i] = acc[j]
                /\ Len(out) >= 3
                /\ \E k \in 1..(Len(out) - 1) : out[k] = acc[i]

\* C2: in every category a token first offered by an earlier step (universal,
\* then providers, then the plugins in input order, then the themes in
\* themes_to_process order) precedes a token first offered by a later step,
\* and every token offered by any step is in the output.
C2_StepOrder ==
    Generated =>
        \A cat \in Categories :
            LET out == OutTokens(cat)
                step == [i \in 1..Len(out) |-> Min(StepsOf(out[i], cat))]
            IN  /\ Range(out) = OfferedTokens(cat)
                /\ \A i, j \in 1..Len(out) : i < j => step[i] <= step[j]

\* C2 witness: one category received tokens first offered by each of the
\* four kinds of step
C2_Witness ==
    /\ Generated
    /\ \E cat \in Categories :
          LET out == OutTokens(cat)
              first == {Min(StepsOf(out[i], cat)) : i \in 1..Len(out)}
          IN  /\ 1 \in first
              /\ 2 \in first
              /\ \E s \in first : s > 2 /\ s <= 2 + Len(call.plugins)
              /\ \E s \in first : s > 2 + Len(call.plugins)


\* Whether some rule dictionary has an entry for the identifier
KnownPlugin(plugin) ==
    \E d \in {rucss_dict, delayjs_dict, js_dict} :
        normalize_plugin_name(plugin) \in DOMAIN dict_get(d, "plugins")
KnownTheme(theme) ==
    \E d \in {rucss_dict, delayjs_dict, js_dict} :
        normalize_theme_name(theme) \in DOMAIN dict_get(d, "themes")

\* C3 (as claimed): plugins_processed is the number of entries of the plugin
\* sequence that have a fragment in the rule store, themes_processed the
\* number of entries of themes_to_process that have one.
C3_CountsEveryContributor ==
    Generated =>
        /\ response.processing_info.plugins_processed =
              Cardinality({i \in 1..Len(call.plugins) : KnownPlugin(call.plugins[i])})
        /\ response.processing_info.themes_processed =
              Cardinality({k \in 1..Len(call.themes_to_process) :
                              KnownTheme(call.themes_to_process[k])})

\* C4: identifiers found in no dictionary change nothing: generate_config
\* raises only if the template does not parse, and the six categories and
\* both counters are those obtained from the known entries alone.
C4_UnknownIdentifiersSkipped ==
    call.made =>
        /\ call.raised <=> ~template_string.is_json
        /\ response.status = IF call.raised THEN 500 ELSE 200
        /\ Generated =>
              LET start == collect_ad_exclusions(collect_universal(Self), call.domain,
                                                 call.analyze_domain, request.page)
                  known_plugins == SelectSeq(call.plugins, KnownPlugin)
                  known_themes == SelectSeq(call.themes_to_process, KnownTheme)
                  acc == process_themes(Self, process_plugins(Self, start, known_plugins),
                                        known_themes)
              IN  /\ \A cat \in Categories :
                        response.config.perfmatters_options.assets[cat] =
                            exclusion_string(acc[cat])
                  /\ response.processing_info.plugins_processed = acc.plugins_processed
                  /\ response.processing_info.themes_processed = acc.themes_processed

\* C4 witness: an answered request had an unknown plugin next to a counted
\* one and an unknown theme
C4_Witness ==
    /\ Generated
    /\ \E i \in 1..Len(call.plugins) : ~KnownPlugin(call.plugins[i])
    /\ \E k \in 1..Len(call.themes_to_process) : ~KnownTheme(call.themes_to_process[k])
    /\ response.processing_info.plugins_processed = 1

\* The compound rules of the three dictionaries
CompoundRules ==
    UNION {{dict_get(d, "compound_rules")[n] : n \in DOMAIN dict_get(d, "compound_rules")} :
            d \in {rucss_dict, delayjs_dict, js_dict}}

\* The activation predicate of a compound rule for the answered request
Activated(rule) ==
    /\ \A i \in 1..Len(rule.required_plugins) :
          \E j \in 1..Len(call.plugins) :
              normalize_plugin_name(call.plugins[j]) = rule.required_plugins[i]
    /\ \E k \in 1..Len(call.themes_to_process) :
          normalize_theme_name(call.themes_to_process[k]) = rule.required_theme

\* C5 (as claimed): a compound rule's tokens are in the output exactly when
\* all its required plugins and its required theme are in the request.
C5_CompoundRuleActivation ==
    Generated =>
        \A rule \in CompoundRules :
            Activated(rule) <=>
                \A cat \in Categories \cap DOMAIN rule :
                    Range(rule[cat]) \subseteq Range(OutTokens(cat))

\* C6 (as claimed): no two entries of themes_to_process normalize to the same
\* key, and themes_processed counts no key twice.
C6_ThemesDedupedByKey ==
    Generated =>
        /\ \A i, j \in 1..Len(call.themes_to_process) :
              i # j => normalize_theme_name(call.themes_to_process[i])
                          # normalize_theme_name(call.themes_to_process[j])
        /\ response.processing_info.themes_processed <=
              Cardinality({normalize_theme_name(call.themes_to_process[k]) :
                              k \in 1..Len(call.themes_to_process)})

\* C7 (as claimed): the themes processed are the request's `themes` when it
\* supplies some; otherwise they include its theme_parent and its
\* theme_child and are drawn from theme_parent, theme_child and theme (the
\* route reads an absent theme as "default").
C7_ThemeSelection ==
    Generated =>
        IF "themes" \in request.has /\ request.themes # <<>>
        THEN call.themes_to_process = dict_fromkeys(request.themes)
        ELSE LET named == (IF "theme_parent" \in request.has
                           THEN {request.theme_parent} ELSE {})
                          \cup (IF "theme_child" \in request.has
                                THEN {request.theme_child} ELSE {})
                 single == IF "theme" \in request.has THEN request.theme ELSE k_default
             IN  /\ named \subseteq Range(call.themes_to_process)
                 /\ Range(call.themes_to_process) \subseteq named \cup {single}

\* C8: remove_comment_urls of the emitted configuration is empty exactly
\* when an entry of themes_to_process normalizes to a key that contains
\* "kadence", and is the template's value otherwise.
C8_KadenceOverride ==
    Generated =>
        LET kadence ==
                \E k \in 1..Len(call.themes_to_process) :
                    str_contains(normalize_theme_name(call.themes_to_process[k]), k_kadence)
            emitted == response.config.perfmatters_options.remove_comment_urls
        IN  /\ kadence <=> emitted = ""
            /\ ~kadence =>
                  emitted = template_string.doc.perfmatters_options.remove_comment_urls

\* C8 witness: the override applied for "Kadence Child v1.2" although no
\* theme fragment matched, next to a matching plugin
C8_Witness ==
    /\ Generated
    /\ call.themes_to_process = <<r_KadenceChild>>
    /\ response.processing_info.themes_processed = 0
    /\ response.processing_info.plugins_processed > 0
    /\ response.config.perfmatters_options.remove_comment_urls = ""


----------------------------------------------------------------------------
(* Properties of the normalizers, under SpecNorm *)

\* digits, and digits(.digits)* with at least n groups
AllDigits(t) == t # <<>> /\ \A i \in 1..Len(t) : IsDigit(t[i])
RECURSIVE DottedNumber(_, _)
DottedNumber(t, n) ==
    \/ n <= 1 /\ AllDigits(t)
    \/ \E d \in 2..(Len(t) - 1) :
          /\ t[d] = "."
          /\ AllDigits(SubSeq(t, 1, d - 1))
          /\ DottedNumber(SubSeq(t, d + 1, Len(t)), n - 1)

HasPrefix(t, pre) == Len(t) >= Len(pre) /\ SubSeq(t, 1, Len(pre)) = pre
After(t, pre) == SubSeq(t, Len(pre) + 1, Len(t))

\* The four version suffixes of the specification, in its order
VersionSuffix(n, t) ==
    IF n = 1 THEN HasPrefix(t, <<"-", "v">>) /\ DottedNumber(After(t, <<"-", "v">>), 1)
    ELSE IF n = 2
    THEN LET pre == <<"-", "v", "e", "r", "s", "i", "o", "n", "-">>
         IN  HasPrefix(t, pre) /\ DottedNumber(After(t, pre), 1)
    ELSE IF n = 3 THEN HasPrefix(t, <<"-">>) /\ DottedNumber(After(t, <<"-">>), 2)
    ELSE HasPrefix(t, <<"-">>) /\ AllDigits(After(t, <<"-">>))

\* Where a suffix of kind n starts in s
SuffixStarts(n, s) == {p \in 1..Len(s) : VersionSuffix(n, SubSeq(s, p, Len(s)))}

\* The theme key of the specification: lowercased, hyphenated, and the first
\* kind of version suffix that occurs stripped
SpecifiedThemeKey(theme) ==
    LET s == str_replace(str_replace(str_lower(theme), " ", "-"), "_", "-")
        kinds == {n \in 1..4 : SuffixStarts(n, s) # {}}
    IN  IF kinds = {} THEN s
        ELSE SubSeq(s, 1, Min(SuffixStarts(Min(kinds), s)) - 1)

\* C9 (as claimed): _normalize_theme_name yields the lowercased, hyphenated
\* name with its trailing version suffix stripped.
C9_ThemeVersionStripped ==
    (norm_fn = "theme" /\ norm_steps = 1) => norm_x = SpecifiedThemeKey(norm_in)

\* C10 (as claimed): applying a normalizer to its own result changes nothing.
C10_NormalizersIdempotent ==
    norm_steps = 2 => norm_x = norm_prev

\* The plugin key of the specification: everything from the first "/" on
\* discarded, then the first run of whitespace followed by a digit and all
\* after it discarded, then lowercased and hyphenated
SpecifiedPluginKey(plugin) ==
    LET slashes == {p \in 1..Len(plugin) : plugin[p] = "/"}
        s1 == IF slashes = {} THEN plugin ELSE SubSeq(plugin, 1, Min(slashes) - 1)
        versions ==
            {p \in 1..Len(s1) :
                \E q \in (p + 1)..Len(s1) :
                    /\ \A i \in p..(q - 1) : IsSpace(s1[i])
                    /\ IsDigit(s1[q])}
        s2 == IF versions = {} THEN s1 ELSE SubSeq(s1, 1, Min(versions) - 1)
    IN  str_replace(str_replace(str_lower(s2), " ", "-"), "_", "-")

\* C11 (as claimed): _normalize_plugin_name discards everything from the
\* first "/" on, then the first run of whitespace followed by digits with
\* everything after it, then lowercases and hyphenates.
C11_PluginKeyAsSpecified ==
    (norm_fn = "plugin" /\ norm_steps = 1) => norm_x = SpecifiedPluginKey(norm_in)

----------------------------------------------------------------------------
(* Properties of the fragments, under Spec *)

\* The fragment a dictionary holds for entry i of the plugin sequence, and
\* for entry k of themes_to_process ({} when it holds none)
PluginFragment(d, i) ==
    dict_get(dict_get(d, "plugins"), normalize_plugin_name(call.plugins[i]))
ThemeFragment(d, k) ==
    dict_get(dict_get(d, "themes"), normalize_theme_name(call.themes_to_process[k]))

\* Every token of every category array of a fragment is in the output
FragmentMerged(fragment) ==
    \A cat \in Categories \cap DOMAIN fragment :
        Range(fragment[cat]) \subseteq Range(OutTokens(cat))

\* C12 (as claimed): every category array of every matched plugin or theme
\* fragment, in each of the three dictionaries, is merged into the output
\* category of the same name.
C12_AllCategoriesMerged ==
    Generated =>
        \A d \in {rucss_dict, delayjs_dict, js_dict} :
            /\ \A i \in 1..Len(call.plugins) : FragmentMerged(PluginFragment(d, i))
            /\ \A k \in 1..Len(call.themes_to_process) : FragmentMerged(ThemeFragment(d, k))

----------------------------------------------------------------------------
(* Properties of loading, under Spec *)

\* C16 (as claimed): a /reload-config that fails leaves the template and the
\* three rule dictionaries as they were before it started.
C16_FailedReloadKeepsSnapshot ==
    [][(/\ request = NoRequest
        /\ request'.route = "/reload-config"
        /\ response'.status = 500) => UNCHANGED store_vars]_vars

\* C17 (as claimed): once load_configurations has succeeded, no call of
\* generate_config raises because the template does not parse.
C17_TemplateValidatedAtLoad ==
    call.made => ~call.raised

----------------------------------------------------------------------------
(* Properties of repeated calls, under SpecCalls *)

C15_NoSharedStateMutated ==
    \A i \in 1..Len(returned) :
        /\ returned[i].self = Self
        /\ \A j \in 1..Len(returned) :
              i # j => returned[i].object # returned[j].object
        /\ ~returned[i].written =>
              heap[returned[i].object] = returned[i].config

\* C15 witness: two calls returned, the first caller wrote into its
\* configuration, and the second holds an object that was not touched
C15_Witness ==
    /\ Len(returned) >= 2
    /\ returned[1].written
    /\ heap[returned[1].object] # returned[1].config
    /\ ~returned[2].written
    /\ returned[2].plugins = returned[1].plugins
    /\ returned[2].themes = returned[1].themes
    /\ heap[returned[2].object] = returned[2].config

----------------------------------------------------------------------------
(* Properties of concurrent handlers, under SpecThreads *)

\* The loads there have been: the one at startup and those of the threads
Loads ==
    {[a \in Range(Attributes) |->
        file_value(CHOOSE k \in 1..4 : Attributes[k] = a,
                   DiskA[AttributeFile[CHOOSE k \in 1..4 : Attributes[k] = a]])]}
    \cup {reloads[t].loaded : t \in 1..Len(reloads)}

\* C18 (as claimed): every read a finished generate_config call made of the
\* template and of the dictionaries gave the value of one and the same load.
C18_ReadsOneSnapshot ==
    reader.pc > Len(ReadOrder) =>
        \E load \in Loads :
            \A a \in Range(Attributes) :
                \A v \in reader.seen[a] : a \in DOMAIN load /\ load[a] = v

\* C19 (as claimed): once all reloads have finished, the template and the
\* three dictionaries are those one of them loaded.
C19_ReloadsDoNotRace ==
    (\A t \in 1..Len(reloads) : reloads[t].pc = DonePc) =>
        \E t \in 1..Len(reloads) :
            \A a \in Range(Attributes) : self_get(a) = reloads[t].loaded[a]

----------------------------------------------------------------------------
(* Properties of the deployment, under SpecWorkers *)

\* C20 (as claimed): a /generate-config request handled after a
\* /reload-config was answered 200 gets the answer the reloaded template and
\* dictionaries give, whichever worker handles it.
C20_ReloadReachesEveryWorker ==
    (served.made /\ published.valid) =>
        served.response = route_generate_config(published.self, served.data).response

----------------------------------------------------------------------------
(* Properties of provider detection, under Spec *)

\* Detection was requested of the call: line 118
DetectionRequested == call.analyze_domain /\ Truthy(call.domain)

\* C21: when the detector's fetch fails, generate_config is answered as it
\* would be with analyze_domain false: the same configuration and processing
\* info, and 200 whenever the template parses.
C21_FailedFetchDegrades ==
    (call.made /\ DetectionRequested /\ ~request.page.fetched) =>
        /\ response =
              answer(generate_config(Self, call.plugins, call.theme, call.domain, FALSE,
                                     call.themes, call.theme_parent, call.theme_child,
                                     request.page))
        /\ template_string.is_json => response.status = 200 /\ response.success

\* C21 witness: detection was requested, the fetch failed, and the request
\* was answered 200 with a plugin and a theme counted
C21_Witness ==
    /\ Generated
    /\ DetectionRequested
    /\ ~request.page.fetched
    /\ response.processing_info.plugins_processed >= 1
    /\ response.processing_info.themes_processed >= 1
    /\ OutTokens("minify_js_exclusions") = <<>>

----------------------------------------------------------------------------
(* Properties of the /generate-config route, under Spec *)

\* The body of the request is not JSON, is not a JSON object with a plugins
\* field, or its plugins is not an array
MalformedInput ==
    /\ request.route = "/generate-config"
    /\ \/ request.body # "object"
       \/ "plugins" \notin request.has
       \/ ~request.plugins_is_list

\* C22: a malformed /generate-config request is answered 400 with a
\* validation error, generate_config is not called and nothing is saved.
C22_MalformedInputRejected ==
    (MalformedInput /\ response.status # 0) =>
        /\ response.status = 400
        /\ response.error # ""
        /\ ~call.made
        /\ ~response.saved

----------------------------------------------------------------------------
(* Properties of the store's shape, under SpecShapes *)

\* A dictionary of the store lacks a category or holds there a value that is
\* not an object
SomeCategoryNotObject ==
    \E d \in {rucss_dict, delayjs_dict, js_dict} :
        \E category \in {"universal", "plugins", "themes"} :
            json_kind(d, category) # "object"

\* C23: with a category missing or of the wrong shape in a dictionary,
\* generate_config does not raise: the request is answered 200 and nothing
\* of that category is in the output.
C23_MalformedCategoriesAsEmpty ==
    (call.made /\ SomeCategoryNotObject) =>
        /\ ~call.raised
        /\ response.status = 200

----------------------------------------------------------------------------
(* Properties of the answer's processing_info, under Spec *)

\* C24: a /generate-config request with a plugins array and a theme, against
\* a store whose template parses, is answered 200 with a processing_info that
\* has the fields plugins_processed and theme_processed.
C24_ProcessingInfoFields ==
    (call.made /\ "theme" \in request.has /\ template_string.is_json) =>
        /\ response.status = 200
        /\ {"plugins_processed", "theme_processed"} \subseteq DOMAIN response.processing_info

----------------------------------------------------------------------------
(* Properties of the detector's evidence, under Spec *)

\* The page has evidence of the provider itself: one of its domains in a
\* script source, or one of its patterns in the HTML
OwnEvidence(page, provider_config) ==
    \/ \E i \in 1..Len(page.script_sources) :
          \E d \in 1..Len(provider_config.domains) :
              provider_config.domains[d] \in page.script_sources[i]
    \/ \E k \in 1..Len(provider_config.patterns) :
          provider_config.patterns[k] \in page.html

\* The exclusions of the provider are in the emitted configuration
ProviderMerged(provider_config) ==
    Range(provider_config.minify_js_exclusions)
        \subseteq Range(OutTokens("minify_js_exclusions"))

\* C27: the exclusions of a provider are merged only if the fetched page has
\* evidence of that provider itself; a page with AdThrive/Raptive markers
\* only adds the exclusions of no other provider.
C27_DetectedOnOwnEvidence ==
    (Generated /\ DetectionRequested /\ request.page.fetched) =>
        \A i \in 1..Len(ad_providers) :
            ProviderMerged(ad_providers[i]) => OwnEvidence(request.page, ad_providers[i])

\* C28: detected_ad_providers, as returned by generate_config and as saved
\* in the metadata and handed to the usage log, is the empty list for every
\* answered request, also when providers' exclusions were merged.
C28_DetectedProvidersAlwaysEmpty ==
    Generated => response.metadata.detected_ad_providers = <<>>

\* C28 witness: detection ran on a fetched page, the exclusions of the first
\* provider were merged and saved, and no provider is named
C28_Witness ==
    /\ Generated
    /\ DetectionRequested
    /\ request.page.fetched
    /\ ProviderMerged(ad_providers[1])
    /\ response.saved
    /\ response.metadata.detected_ad_providers = <<>>

\* The request asks for detection: analyze_domain is true and domain is not
\* empty
RequestAsksDetection ==
    /\ data_get(request, "analyze_domain", FALSE)
    /\ Truthy(data_get(request, "domain", <<>>))

\* The configuration the plugins, the themes and the store give by themselves
ConfigWithoutDetection ==
    assemble(json_loads(template_string).value,
             process_themes(Self,
                            process_plugins(Self, collect_universal(Self), call.plugins),
                            call.themes_to_process),
             call.themes_to_process)

\* C29: generate_config calls the detector exactly when analyze_domain is
\* true and domain is non-empty; in every other answered call the emitted
\* configuration is the one plugins, themes and store give by themselves.
C29_DetectionOnlyWhenRequested ==
    call.made =>
        /\ call.fetch_made <=> RequestAsksDetection
        /\ (Generated /\ ~RequestAsksDetection) => response.config = ConfigWithoutDetection

\* C29 witness: analyze_domain is true but the domain is empty, the domain's
\* page would show two providers, and the answered call made no fetch
C29_Witness ==
    /\ Generated
    /\ request.analyze_domain
    /\ ~Truthy(request.domain)
    /\ request.page = PageBoth
    /\ ~call.fetch_made
    /\ response.processing_info.plugins_processed >= 1
    /\ OutTokens("minify_js_exclusions") = <<>>

----------------------------------------------------------------------------
(* Frame of the assembler, under Spec *)

\* The parsed template of the store
ParsedTemplate == json_loads(template_string).value

\* C30: the emitted configuration has the fields of the parsed template, and
\* every field other than the six exclusion fields of
\* perfmatters_options.assets has the template's value, but for
\* perfmatters_options.remove_comment_urls when the Kadence override applies.
C30_AssemblerFrame ==
    Generated =>
        LET t == ParsedTemplate
            c == response.config
        IN  /\ DOMAIN c = DOMAIN t
            /\ \A f \in DOMAIN t \ {"perfmatters_options"} : c[f] = t[f]
            /\ DOMAIN c.perfmatters_options = DOMAIN t.perfmatters_options
            /\ \A f \in DOMAIN t.perfmatters_options \ {"assets", "remove_comment_urls"} :
                  c.perfmatters_options[f] = t.perfmatters_options[f]
            /\ DOMAIN c.perfmatters_options.assets = DOMAIN t.perfmatters_options.assets
            /\ \A f \in DOMAIN t.perfmatters_options.assets \ Categories :
                  c.perfmatters_options.assets[f] = t.perfmatters_options.assets[f]
            /\ ~is_kadence_theme(call.themes_to_process) =>
                  c.perfmatters_options.remove_comment_urls
                      = t.perfmatters_options.remove_comment_urls

\* C30 witness: an answered request where the Kadence override applied and
\* exclusions were written, with the template's other fields as they were
C30_Witness ==
    /\ Generated
    /\ is_kadence_theme(call.themes_to_process)
    /\ response.config.perfmatters_options.remove_comment_urls = ""
    /\ ParsedTemplate.perfmatters_options.remove_comment_urls = "1"
    /\ response.config.perfmatters_options.assets.js_exclusions
          # ParsedTemplate.perfmatters_options.assets.js_exclusions
    /\ response.config.perfmatters_options.assets.delay_js = "1"
    /\ response.config.perfmatters_options.disable_emojis = "1"
    /\ response.config.version = "2.1"

----------------------------------------------------------------------------
(* Properties of the dashboard's authentication, under SpecAuth *)

\* The session is one in which a login has succeeded: login stored
\* session_id, authenticated and auth_token, and no logout has cleared them
LoggedIn ==
    /\ session_get(session, "authenticated", FALSE)
    /\ {"session_id", "auth_token"} \subseteq DOMAIN session

\* C25: in a session in which login has succeeded, a request to a route
\* guarded by require_auth is served and not redirected to the login page.
C25_LoginGrantsAccess ==
    (LoggedIn /\ web.route \in {"/", "/api/configs"}) =>
        /\ web.status = 200
        /\ web.body # "redirect:login"

\* C26: to a session that is not authenticated, the routes that list or
\* return saved configurations answer with a redirect to login or an error,
\* and with no configuration.
C26_NoConfigToUnauthenticated ==
    (~session_get(session, "authenticated", FALSE)
        /\ web.route \in {"/", "/api/configs", "/download"}) =>
        /\ web.body = "redirect:login" \/ web.status >= 400
        /\ web.configs = {}

====
